---- MODULE Spec2Model ----
(***************************************************************************)
(* Stock news monitor: watchlist loader, time window, news filter, the two *)
(* AI confirmers, the two notifiers and the orchestrator (src/main.py,     *)
(* src/src/ai_judge.py, src/src/mail_handler.py).                          *)
(*                                                                         *)
(* Python strings whose content matters (cells, titles, keywords) are      *)
(* sequences of Unicode code points.  Python lists are sequences; a Python *)
(* index i is position i + 1.                                              *)
(***************************************************************************)
EXTENDS Integers, Sequences, FiniteSets

VARIABLES
    pc,                 \* main(): position in the orchestrator
    bad_news,           \* main(): first result of judge_news_with_gemini
    good_news,          \* main(): second result of judge_news_with_gemini
    spc,                \* get_stock_list: position
    sheet_err,          \* get_stock_list: the spreadsheet access raised
    raw_column,         \* get_stock_list: sheet.col_values(1) as read
    stock_list,         \* get_stock_list: returned list
    tpc,                \* get_target_time_range: position
    now,                \* datetime.now(jst)
    window,             \* (start_dt, end_dt, mode)
    fpc,                \* fetch_stock_news: position
    tickers,            \* fetch_stock_news: argument
    ti,                 \* fetch_stock_news: tickers already iterated
    raw,                \* fetch_stock_news: what the provider returned per ticker
    candidates,         \* fetch_stock_news: candidates list
    jpc,                \* judge_news_with_gemini: position
    variant,            \* "A" = src/main.py, "B" = src/src/ai_judge.py
    news_list,          \* judge_news_with_gemini: argument
    ci,                 \* judge_news_with_gemini: loop variable i (chunk offset)
    confirmed_bad,      \* confirmed_bad_news / bad_news_confirmed
    confirmed_good,     \* confirmed_good_news / good_news_confirmed
    log,                \* judge_news_with_gemini: one record per model request
    mpc,                \* send_and_clean_email: position
    impl,               \* "A" = src/main.py, "B" = src/src/mail_handler.py
    subject,            \* send_and_clean_email: argument
    body,               \* send_and_clean_email: argument
    events              \* mail events so far (SMTP / IMAP traffic)

mainVars  == <<pc, bad_news, good_news>>
sheetVars == <<spc, sheet_err, raw_column, stock_list>>
timeVars  == <<tpc, now, window>>
fetchVars == <<fpc, tickers, ti, raw, candidates>>
judgeVars == <<jpc, variant, news_list, ci, confirmed_bad, confirmed_good, log>>
mailVars  == <<mpc, impl, subject, body, events>>
vars == <<mainVars, sheetVars, timeVars, fetchVars, judgeVars, mailVars>>

Range(s) == {s[k] : k \in 1..Len(s)}

\* All sequences over S of length 0..n.
SeqsUpTo(S, n) == UNION {[1..k -> S] : k \in 0..n}

(***************************************************************************)
(* 2. Sheet loader: get_stock_list (src/main.py 49-75)                     *)
(***************************************************************************)

\* ".T", the market suffix of src/main.py line 68, as code points.
MarketSuffix == <<46, 84>>

\* The characters str.strip() removes: every code point c with
\* chr(c).isspace(): TAB LF VT FF CR, FS GS RS US, SPACE, NEL, NBSP,
\* U+1680, U+2000..U+200A, U+2028, U+2029, U+202F, U+205F, U+3000.
PyWhitespace ==
    (9..13) \cup (28..32) \cup {133, 160, 5760} \cup (8192..8202)
    \cup {8232, 8233, 8239, 8287, 12288}

IsSpace(c) == c \in PyWhitespace

RECURSIVE LStrip(_)
LStrip(s) == IF s # <<>> /\ IsSpace(Head(s)) THEN LStrip(Tail(s)) ELSE s

RECURSIVE RStrip(_)
RStrip(s) ==
    IF s # <<>> /\ IsSpace(s[Len(s)]) THEN RStrip(SubSeq(s, 1, Len(s) - 1)) ELSE s

\* str.strip()
Strip(s) == RStrip(LStrip(s))

\* str.endswith(suf)
EndsWith(s, suf) ==
    /\ Len(s) >= Len(suf)
    /\ SubSeq(s, Len(s) - Len(suf) + 1, Len(s)) = suf

\* Lines 64, 68-69: the code after strip, with ".T" appended when absent.
NormalizeCode(code) ==
    IF EndsWith(Strip(code), MarketSuffix)
    THEN Strip(code)
    ELSE Strip(code) \o MarketSuffix

\* Lines 62-70: the loop over raw_values; blank cells are skipped.
RECURSIVE BuildStockList(_)
BuildStockList(raw_values) ==
    IF raw_values = <<>> THEN <<>>
    ELSE IF Strip(Head(raw_values)) = <<>>
         THEN BuildStockList(Tail(raw_values))
         ELSE <<NormalizeCode(Head(raw_values))>> \o BuildStockList(Tail(raw_values))

\* Line 60: sheet.col_values(1)[1:]
SkipHeader(column) == IF column = <<>> THEN <<>> ELSE Tail(column)

\* Cells of the watchlist column: "code" (the header), "", " ", " \t", "72",
\* " 72 ", "72.T", "72.T ", "67", ".T", "72.t", "\r", "72\r", U+3000 "72",
\* "7 2".
MaxCells == 3
HeaderCell == <<99, 111, 100, 101>>
Cells ==
    { <<>>, <<32>>, <<32, 9>>,
      <<55, 50>>, <<32, 55, 50, 32>>, <<55, 50, 46, 84>>,
      <<55, 50, 46, 84, 32>>, <<54, 55>>, <<46, 84>>,
      <<55, 50, 46, 116>>,
      <<13>>, <<55, 50, 13>>, <<12288, 55, 50>>, <<55, 32, 50>> }
Columns ==
    {<<>>} \cup {<<HeaderCell>> \o c : c \in SeqsUpTo(Cells, MaxCells)}

\* Columns of the end-to-end runs.
MainColumns ==
    { <<>>, <<HeaderCell>>, <<HeaderCell, <<12288>> >>,
      <<HeaderCell, <<55, 50>> >>,
      <<HeaderCell, <<55, 50, 13>>, <<54, 55, 46, 84>> >> }

\* get_stock_list, whole function: any exception of the try block gives [].
GetStockList(Cols) ==
    /\ spc = "start"
    /\ \/ /\ sheet_err' = TRUE
          /\ raw_column' = <<>>
          /\ stock_list' = <<>>
       \/ \E column \in Cols :
            /\ sheet_err' = FALSE
            /\ raw_column' = column
            /\ stock_list' = BuildStockList(SkipHeader(column))
    /\ spc' = "returned"
    /\ UNCHANGED <<mainVars, timeVars, fetchVars, judgeVars, mailVars>>

(***************************************************************************)
(* 3a. Time window: get_target_time_range (src/main.py 81-104)             *)
(***************************************************************************)

\* A datetime in the fixed timezone: day is a day number.
DateTime(d, h, m, s, us) ==
    [day |-> d, hour |-> h, minute |-> m, second |-> s, microsecond |-> us]

\* datetime.replace(hour=, minute=, second=): the other fields are kept.
Replace(dt, h, m, s) == [dt EXCEPT !.hour = h, !.minute = m, !.second = s]

\* dt - timedelta(days=n)
MinusDays(dt, n) == [dt EXCEPT !.day = @ - n]

\* dt - timedelta(hours=n), 0 <= n <= 24
MinusHours(dt, n) ==
    IF dt.hour >= n
    THEN [dt EXCEPT !.hour = @ - n]
    ELSE [dt EXCEPT !.day = @ - 1, !.hour = @ + 24 - n]

\* a <= b on datetimes
DtLeq(a, b) ==
    LET ka == <<a.day, a.hour, a.minute, a.second, a.microsecond>>
        kb == <<b.day, b.hour, b.minute, b.second, b.microsecond>>
    IN  \/ ka = kb
        \/ \E k \in 1..5 : /\ ka[k] < kb[k]
                           /\ \A j \in 1..(k - 1) : ka[j] = kb[j]

\* get_target_time_range with datetime.now(jst) = n.
get_target_time_range(n) ==
    IF 11 <= n.hour /\ n.hour <= 13
    THEN [start_dt |-> Replace(MinusDays(n, 1), 17, 0, 0),
          end_dt   |-> Replace(n, 12, 4, 59),
          mode     |-> "NOON_CHECK"]
    ELSE IF 16 <= n.hour /\ n.hour <= 18
    THEN [start_dt |-> Replace(n, 12, 5, 0),
          end_dt   |-> Replace(n, 16, 59, 59),
          mode     |-> "EVENING_CHECK"]
    ELSE [start_dt |-> MinusHours(n, 6),
          end_dt   |-> n,
          mode     |-> "MANUAL_CHECK"]

NoWindow == [start_dt |-> DateTime(0, 0, 0, 0, 0),
             end_dt   |-> DateTime(0, 0, 0, 0, 0),
             mode     |-> "NONE"]

\* Wall-clock instants of an invocation.
Today == 2
ClockMinutes == {0, 4, 5, 59}
ClockSeconds == {0, 3, 59}
ClockMicros  == {0, 250000}
Nows ==
    {DateTime(Today, h, m, s, us) :
        h \in 0..23, m \in ClockMinutes, s \in ClockSeconds, us \in ClockMicros}

\* One call of get_target_time_range.
ResolveTimeRange ==
    /\ tpc = "start"
    /\ \E n \in Nows :
         /\ now' = n
         /\ window' = get_target_time_range(n)
    /\ tpc' = "returned"
    /\ UNCHANGED <<mainVars, sheetVars, fetchVars, judgeVars, mailVars>>

(***************************************************************************)
(* 3b. News fetcher: fetch_stock_news (src/main.py 106-155)                *)
(***************************************************************************)

\* src/main.py line 40, as code points:
\* "PR TIMES", kyanpeen, kaisai, oshirase, boshuu, oopun, kinen, hatsubai
IGNORE_KEYWORDS ==
    << <<80, 82, 32, 84, 73, 77, 69, 83>>,
       <<12461, 12515, 12531, 12506, 12540, 12531>>,
       <<38283, 20652>>,
       <<12362, 30693, 12425, 12379>>,
       <<21215, 38598>>,
       <<12458, 12540, 12503, 12531>>,
       <<35352, 24565>>,
       <<30330, 22770>> >>

\* src/main.py line 42: kahou-shuusei, gen-eki, akaji, sonshitsu, bouraku,
\* sutoppu-yasu, teiso, soshou, gigi, kanri, haishi, baikyaku, fushouji,
\* fusei, rikooru
BAD_KEYWORDS ==
    << <<19979, 26041, 20462, 27491>>,
       <<28187, 30410>>,
       <<36196, 23383>>,
       <<25613, 22833>>,
       <<26292, 33853>>,
       <<12473, 12488, 12483, 12503, 23433>>,
       <<25552, 35380>>,
       <<35380, 35359>>,
       <<30097, 32681>>,
       <<30435, 29702>>,
       <<24259, 27490>>,
       <<22770, 21364>>,
       <<19981, 31077, 20107>>,
       <<19981, 27491>>,
       <<12522, 12467, 12540, 12523>> >>

\* src/main.py line 43: jouhou-shuusei, zoueki, fukuhai, zouhai, jishakabu-gai,
\* kabushiki-bunkatsu, teikei, baishuu, sutoppu-daka, saikoueki, kurojika,
\* shounin
GOOD_KEYWORDS ==
    << <<19978, 26041, 20462, 27491>>,
       <<22679, 30410>>,
       <<24489, 37197>>,
       <<22679, 37197>>,
       <<33258, 31038, 26666, 36023, 12356>>,
       <<26666, 24335, 20998, 21106>>,
       <<25552, 25658>>,
       <<36023, 21454>>,
       <<12473, 12488, 12483, 12503, 39640>>,
       <<26368, 39640, 30410>>,
       <<40658, 23383, 21270>>,
       <<25215, 35469>> >>

\* Python's  k in title  on strings: k is a contiguous substring of title.
Contains(title, k) ==
    \E p \in 1..(Len(title) - Len(k) + 1) : SubSeq(title, p, p + Len(k) - 1) = k

\* any(k in title for k in keywords)
AnyKeyword(title, keywords) ==
    \E j \in 1..Len(keywords) : Contains(title, keywords[j])

\* Seconds east of UTC of Asia/Tokyo.
JstOffset == 32400

\* datetime.fromtimestamp(ts, pytz.timezone('Asia/Tokyo')), ts in epoch seconds.
FromTimestamp(ts) ==
    DateTime((ts + JstOffset) \div 86400,
             ((ts + JstOffset) % 86400) \div 3600,
             ((ts + JstOffset) % 3600) \div 60,
             (ts + JstOffset) % 60,
             0)

\* pub_time.strftime('%m/%d %H:%M'): the date, the hour and the minute.
FormatTime(dt) == <<dt.day, dt.hour, dt.minute>>

\* Line 129: start_dt <= pub_time <= end_dt
InWindow(pub_time, w) == DtLeq(w.start_dt, pub_time) /\ DtLeq(pub_time, w.end_dt)

\* Line 148: "BAD" if is_bad else "GOOD"
Classify(title) == IF AnyKeyword(title, BAD_KEYWORDS) THEN "BAD" ELSE "GOOD"

\* A provider item is a dict.  item.absent are the keys the dict lacks,
\* item.null the keys whose value is None; the three value fields are read
\* only for keys that are neither.
\* None as the value of 'link': the links of the provider are positive.
NoneLink == -1

\* item['link'] of an item that has the key: None is a value like any other.
LinkOf(item) == IF "link" \in item.null THEN NoneLink ELSE item.link

Item(ts, title, link, absent, null) ==
    [providerPublishTime |-> ts, title |-> title, link |-> link,
     absent |-> absent, null |-> null]

\* Lines 126-149 for one item: the candidate it appends (or none) and whether
\* an exception left the loop body: KeyError / TypeError at line 126, KeyError
\* at 132, TypeError at 135 (k in None), KeyError at 147.
ExamineItem(ticker, item, w) ==
    LET pub_time == FromTimestamp(item.providerPublishTime)
        Raise == [appended |-> <<>>, raised |-> TRUE]
        Skip  == [appended |-> <<>>, raised |-> FALSE]
    IN  IF "providerPublishTime" \in item.absent \cup item.null THEN Raise
        ELSE IF ~InWindow(pub_time, w) THEN Skip
        ELSE IF "title" \in item.absent \cup item.null THEN Raise
        ELSE IF AnyKeyword(item.title, IGNORE_KEYWORDS) THEN Skip
        ELSE IF ~(AnyKeyword(item.title, BAD_KEYWORDS)
                  \/ AnyKeyword(item.title, GOOD_KEYWORDS)) THEN Skip
        ELSE IF "link" \in item.absent THEN Raise
        ELSE [appended |-> << [ticker |-> ticker,
                               title  |-> item.title,
                               time   |-> FormatTime(pub_time),
                               link   |-> LinkOf(item),
                               type   |-> Classify(item.title)] >>,
              raised |-> FALSE]

\* Lines 124-153 for the items of one ticker: the candidates appended, and
\* whether the except branch ended the loop.  What was appended before the
\* exception stays; the items after it are not examined.
RECURSIVE FilterNews(_, _, _)
FilterNews(ticker, info, w) ==
    IF info = <<>> THEN [appended |-> <<>>, raised |-> FALSE]
    ELSE LET r == ExamineItem(ticker, Head(info), w)
         IN  IF r.raised THEN [appended |-> <<>>, raised |-> TRUE]
             ELSE LET rest == FilterNews(ticker, Tail(info), w)
                  IN  [appended |-> r.appended \o rest.appended,
                       raised |-> rest.raised]

\* Titles: "kessan wa akaji da ga kyanpeen kaisai" (ignore + BAD keyword),
\* "kahou-shuusei mo jishakabu-gai happyou" (BAD + GOOD keyword),
\* "7203 kahou-shuusei wo happyou" (BAD), "zouhai wo happyou" (GOOD),
\* "shinseihin no wadai" (no keyword).
TitleNoiseBad ==
    <<27770, 31639, 12399, 36196, 23383, 12384, 12364, 12461, 12515, 12531,
      12506, 12540, 12531, 38283, 20652>>
TitleBadGood ==
    <<19979, 26041, 20462, 27491, 12418, 33258, 31038, 26666, 36023, 12356,
      30330, 34920>>
TitleBad ==
    <<55, 50, 48, 51, 32, 19979, 26041, 20462, 27491, 12434, 30330, 34920>>
TitleGood == <<22679, 37197, 12434, 30330, 34920>>
TitleNeutral == <<26032, 35069, 21697, 12398, 35441, 38988>>

\* Epoch seconds of a local (JST) day and time of day.
Stamp(d, h, m, s) == d * 86400 + h * 3600 + m * 60 + s - JstOffset

\* What a provider item is, apart from its link: publish time, title, and
\* the keys it lacks or holds None for.
Shape(ts, title, absent, null) ==
    [ts |-> ts, title |-> title, absent |-> absent, null |-> null]
ItemShapes ==
    { Shape(Stamp(Today, 12, 4, 59), TitleNoiseBad, {}, {}),
      Shape(Stamp(Today, 12, 4, 59), TitleBadGood, {}, {}),
      Shape(Stamp(Today, 12, 4, 59), TitleNeutral, {}, {}),
      Shape(Stamp(Today, 12, 5, 0), TitleBad, {}, {}),
      Shape(Stamp(Today - 1, 17, 0, 0), TitleBad, {}, {}),
      Shape(Stamp(Today, 15, 0, 0), TitleGood, {}, {}),
      Shape(0, TitleGood, {"providerPublishTime"}, {}),
      Shape(Stamp(Today, 12, 4, 59), TitleBad, {"link"}, {}),
      Shape(Stamp(Today, 15, 0, 0), <<>>, {}, {"title"}),
      Shape(Stamp(Today, 15, 0, 0), TitleGood, {}, {"link"}) }
MainItemShapes ==
    { Shape(Stamp(Today, 12, 4, 59), TitleBad, {}, {}),
      Shape(Stamp(Today, 12, 4, 59), TitleGood, {}, {}),
      Shape(Stamp(Today, 12, 5, 0), TitleBad, {}, {}),
      Shape(0, TitleBad, {"providerPublishTime"}, {}) }

\* Invocation instants of the fetcher: a noon, an evening and a manual run.
FetchNows ==
    { DateTime(Today, 12, 5, 3, 250000),
      DateTime(Today, 17, 0, 10, 0),
      DateTime(Today, 15, 0, 0, 0) }
MainNows == { DateTime(Today, 12, 5, 3, 250000), DateTime(Today, 17, 0, 10, 0) }

MaxInfo == 2
Ticker72 == <<55, 50, 46, 84>>
Ticker67 == <<54, 55, 46, 84>>
FetchTickerLists == { <<>>, <<Ticker72>>, <<Ticker72, Ticker67>> }

\* The news list of the (t)-th ticker iterated: items with the given shapes;
\* links are opaque and distinct.
InfoOf(t, shapes) ==
    [k \in 1..Len(shapes) |->
        Item(shapes[k].ts, shapes[k].title, 10 * t + k,
             shapes[k].absent, shapes[k].null)]

\* Lines 108-117: the window, the empty-tickers return, yf.Tickers(...).
FetchStart(NowSet) ==
    /\ fpc = "start"
    /\ \E n \in NowSet :
         /\ now' = n
         /\ window' = get_target_time_range(n)
    /\ ti' = 0
    /\ raw' = <<>>
    /\ candidates' = <<>>
    /\ IF tickers = <<>>
       THEN fpc' = "returned"
       ELSE \/ fpc' = "loop"
            \/ fpc' = "raised"      \* yf.Tickers raised, outside any try
    /\ UNCHANGED <<mainVars, sheetVars, tpc, tickers, judgeVars, mailVars>>

\* Lines 119-153: one iteration of  for ticker in tickers.  raw records what
\* the provider returned and whether the except branch was taken: because
\* stocks.tickers[ticker].news raised (no item seen), or from inside the
\* item loop.
FetchTicker(Shapes, maxInfo) ==
    /\ fpc = "loop"
    /\ ti < Len(tickers)
    /\ \/ /\ raw' = Append(raw, [ticker |-> tickers[ti + 1], failed |-> TRUE,
                                 info |-> <<>>])
          /\ candidates' = candidates
       \/ \E shapes \in SeqsUpTo(Shapes, maxInfo) :
            LET info == InfoOf(ti + 1, shapes)
                r == FilterNews(tickers[ti + 1], info, window)
            IN  /\ raw' = Append(raw, [ticker |-> tickers[ti + 1],
                                       failed |-> r.raised, info |-> info])
                /\ candidates' = candidates \o r.appended
    /\ ti' = ti + 1
    /\ UNCHANGED <<mainVars, sheetVars, timeVars, fpc, tickers, judgeVars, mailVars>>

\* Line 155: return candidates
FetchReturn ==
    /\ fpc = "loop"
    /\ ti = Len(tickers)
    /\ fpc' = "returned"
    /\ UNCHANGED <<mainVars, sheetVars, timeVars, tickers, ti, raw, candidates,
                   judgeVars, mailVars>>

(***************************************************************************)
(* 4. AI judge: judge_news_with_gemini                                     *)
(*    variant "A": src/main.py 161-236, variant "B": src/src/ai_judge.py   *)
(***************************************************************************)

\* chunk_size: src/main.py line 186 and src/src/ai_judge.py line 17.
ChunkSizeA == 30
ChunkSizeB == 10
ChunkSize(v) == IF v = "A" THEN ChunkSizeA ELSE ChunkSizeB

IsBadType(n) == n.type = "BAD"
IsGoodType(n) == n.type = "GOOD"

\* The list the batches are cut from: potential_bad_news (A), news_list (B).
Batched(v, list) == IF v = "A" THEN SelectSeq(list, IsBadType) ELSE list

\* list[i:i + size]
Chunk(list, i, size) ==
    SubSeq(list, i + 1, IF i + size < Len(list) THEN i + size ELSE Len(list))

\* Python list indexing chunk[idx]: negative indices count from the end.
IndexOk(chunk, idx) == -Len(chunk) <= idx /\ idx < Len(chunk)
PyIndex(chunk, idx) == IF idx >= 0 THEN chunk[idx + 1] ELSE chunk[Len(chunk) + idx + 1]

\* ---- variant A: the response is a JSON text ----

\* A JSON array element as json.loads gives it: an int, a bool (True is 1,
\* False is 0), a float or a string; val is its numeric value.
JInt(n)   == [kind |-> "int", val |-> n]
JBool(n)  == [kind |-> "bool", val |-> n]
JFloat(n) == [kind |-> "float", val |-> n]
JStr(n)   == [kind |-> "str", val |-> n]

\* isinstance(idx, int): Python's bool is a subclass of int.
IsInstanceInt(e) == e.kind \in {"int", "bool"}

\* Lines 217-221: fence removal and json.loads.  A text that starts with a
\* fence loses it; a fence after other text stays and the text does not parse.
ParseJson(text) ==
    IF text.fence = "inner" THEN [kind |-> "invalid", elems |-> <<>>] ELSE text.payload

\* Lines 225-227: for idx in target_indices: the items appended.
RECURSIVE MapIndices(_, _)
MapIndices(chunk, elems) ==
    IF elems = <<>> THEN <<>>
    ELSE LET idx == Head(elems)
         IN  (IF IsInstanceInt(idx) /\ 0 <= idx.val /\ idx.val < Len(chunk)
              THEN <<chunk[idx.val + 1]>>
              ELSE <<>>) \o MapIndices(chunk, Tail(elems))

\* Lines 212-234, one batch: what is appended to confirmed_bad_news and
\* whether the except branch was taken.
BatchA(chunk, resp) ==
    IF resp.status = "error"
    THEN [bad |-> <<>>, good |-> <<>>, failed |-> TRUE]
    ELSE LET target_indices == ParseJson(resp.text)
         IN  IF target_indices.kind = "invalid"
             THEN [bad |-> <<>>, good |-> <<>>, failed |-> TRUE]
             ELSE IF target_indices.kind = "list"
             THEN [bad |-> MapIndices(chunk, target_indices.elems),
                   good |-> <<>>, failed |-> FALSE]
             ELSE [bad |-> <<>>, good |-> <<>>, failed |-> FALSE]

\* ---- variant B: the response is a text of lines ----

\* A line: head is what int(line.split(':')[0].replace('No.', '')) is applied
\* to (num = FALSE: int() raises ValueError), label is the rest of the line.
Line(isnum, n, label) == [num |-> isnum, val |-> n, label |-> label]
HasBAD(line)  == line.label \in {"BAD", "BAD GOOD"}
HasGOOD(line) == line.label \in {"GOOD", "BAD GOOD"}

\* Lines 44-51, one line: the item appended (or none) and whether it raised.
LineB(chunk, line) ==
    IF ~HasBAD(line) /\ ~HasGOOD(line)
    THEN [item |-> <<>>, raised |-> FALSE]
    ELSE IF ~line.num
    THEN [item |-> <<>>, raised |-> TRUE]                \* ValueError
    ELSE IF ~(line.val < Len(chunk))
    THEN [item |-> <<>>, raised |-> FALSE]
    ELSE IF ~IndexOk(chunk, line.val)
    THEN [item |-> <<>>, raised |-> TRUE]                \* IndexError
    ELSE [item |-> <<PyIndex(chunk, line.val)>>, raised |-> FALSE]

\* Lines 43-51: for line in lines, until a line raises.
RECURSIVE LinesB(_, _)
LinesB(chunk, lines) ==
    IF lines = <<>> THEN [bad |-> <<>>, good |-> <<>>, failed |-> FALSE]
    ELSE LET r == LineB(chunk, Head(lines))
             mine == [bad  |-> IF HasBAD(Head(lines)) THEN r.item ELSE <<>>,
                      good |-> IF HasBAD(Head(lines)) THEN <<>> ELSE r.item]
         IN  IF r.raised
             THEN [bad |-> <<>>, good |-> <<>>, failed |-> TRUE]
             ELSE LET rest == LinesB(chunk, Tail(lines))
                  IN  [bad |-> mine.bad \o rest.bad,
                       good |-> mine.good \o rest.good,
                       failed |-> rest.failed]

\* Lines 39-56, one batch.
BatchB(chunk, resp) ==
    IF resp.status = "error"
    THEN [bad |-> <<>>, good |-> <<>>, failed |-> TRUE]
    ELSE LinesB(chunk, resp.lines)

\* ---- the inputs of the confirmer ----

\* A candidate as fetch_stock_news builds it.
Cand(k, ty) ==
    [ticker |-> Ticker72,
     title  |-> IF ty = "BAD" THEN TitleBad ELSE TitleGood,
     time   |-> <<Today, 12, 0>>,
     link   |-> k,
     type   |-> ty]

\* n candidates, those at the positions of G of type GOOD, the others BAD.
NewsListOf(n, G) == [k \in 1..n |-> Cand(k, IF k \in G THEN "GOOD" ELSE "BAD")]

MaxShort == 3
ShortLists == {NewsListOf(n, G) : n \in 0..MaxShort, G \in SUBSET (1..2)}
JudgeInputs(v) ==
    ShortLists \cup {NewsListOf(ChunkSize(v) + 1, {}), NewsListOf(ChunkSize(v) + 2, {1})}

MaxResp == 2
JsonElems == {JInt(-1), JInt(0), JInt(1), JInt(2), JInt(30), JBool(1), JFloat(1), JStr(0)}
Payloads ==
    {[kind |-> "invalid", elems |-> <<>>], [kind |-> "object", elems |-> <<>>]}
    \cup {[kind |-> "list", elems |-> e] : e \in SeqsUpTo(JsonElems, MaxResp)}
Error == [status |-> "error"]
ResponsesA ==
    {Error} \cup
    {[status |-> "ok", text |-> [fence |-> f, payload |-> p]] :
        f \in {"none", "json"}, p \in Payloads} \cup
    {[status |-> "ok", text |-> [fence |-> "inner",
                                  payload |-> [kind |-> "list", elems |-> <<JInt(0)>>]]]}

LinesOfB ==
    {Line(TRUE, n, l) : n \in {-4, -1, 0, 1, 10}, l \in {"BAD", "GOOD", "IGNORE"}}
    \cup {Line(FALSE, 0, l) : l \in {"BAD", "IGNORE", "BAD GOOD"}}
    \cup {Line(TRUE, 0, "BAD GOOD")}
ResponsesB ==
    {Error} \cup
    {[status |-> "ok", lines |-> ls] : ls \in (SeqsUpTo(LinesOfB, MaxResp) \ {<<>>})}

\* Responses of the end-to-end runs (variant A).
MainResponses ==
    {Error} \cup
    {[status |-> "ok", text |-> [fence |-> "json", payload |-> p]] :
        p \in {[kind |-> "invalid", elems |-> <<>>],
               [kind |-> "list", elems |-> <<>>],
               [kind |-> "list", elems |-> <<JInt(0)>>],
               [kind |-> "list", elems |-> <<JInt(1), JInt(0)>>]}}

\* Responses of the end-to-end runs (variant B).
MainResponsesB ==
    {Error} \cup
    {[status |-> "ok", lines |-> ls] :
        ls \in { <<Line(TRUE, 0, "BAD")>>,
                 <<Line(TRUE, 0, "GOOD")>>,
                 <<Line(TRUE, 1, "GOOD"), Line(TRUE, 0, "BAD")>>,
                 <<Line(TRUE, -1, "GOOD")>>,
                 <<Line(TRUE, 0, "IGNORE")>> }}

\* ---- the steps of judge_news_with_gemini ----

\* Up to the loop: the empty-list return, (A) the split and the return when
\* no BAD candidate exists, genai.configure / GenerativeModel (outside any try).
JudgeStart ==
    /\ jpc = "start"
    /\ ci' = 0
    /\ log' = <<>>
    /\ confirmed_bad' = <<>>
    /\ IF news_list = <<>>
       THEN /\ confirmed_good' = <<>>
            /\ jpc' = "returned"
       ELSE IF variant = "A" /\ SelectSeq(news_list, IsBadType) = <<>>
       THEN /\ confirmed_good' = SelectSeq(news_list, IsGoodType)
            /\ jpc' = "returned"
       ELSE /\ confirmed_good' =
                 IF variant = "A" THEN SelectSeq(news_list, IsGoodType) ELSE <<>>
            /\ \/ jpc' = "loop"
               \/ jpc' = "raised"
    /\ UNCHANGED <<mainVars, sheetVars, timeVars, fetchVars, variant, news_list,
                   mailVars>>

\* One iteration of  for i in range(0, len(...), chunk_size): one request.
JudgeBatch(RespA, RespB) ==
    /\ jpc = "loop"
    /\ ci < Len(Batched(variant, news_list))
    /\ \E resp \in (IF variant = "A" THEN RespA ELSE RespB) :
         LET chunk == Chunk(Batched(variant, news_list), ci, ChunkSize(variant))
             r == IF variant = "A" THEN BatchA(chunk, resp) ELSE BatchB(chunk, resp)
         IN  /\ confirmed_bad' = confirmed_bad \o r.bad
             /\ confirmed_good' = confirmed_good \o r.good
             /\ log' = Append(log, [offset |-> ci, chunk |-> chunk, resp |-> resp,
                                    failed |-> r.failed,
                                    bad |-> r.bad, good |-> r.good])
    /\ ci' = ci + ChunkSize(variant)
    /\ UNCHANGED <<mainVars, sheetVars, timeVars, fetchVars, jpc, variant,
                   news_list, mailVars>>

\* return confirmed_bad_news, confirmed_good_news
JudgeReturn ==
    /\ jpc = "loop"
    /\ ci >= Len(Batched(variant, news_list))
    /\ jpc' = "returned"
    /\ UNCHANGED <<mainVars, sheetVars, timeVars, fetchVars, variant, news_list, ci,
                   confirmed_bad, confirmed_good, log, mailVars>>

(***************************************************************************)
(* 5. Mail handler: create_body, cleanup_sent_mail, send_and_clean_email   *)
(*    impl "A": src/main.py 242-311, impl "B": src/src/mail_handler.py     *)
(***************************************************************************)

\* A body is None or a string; a string is the sequence of its parts.
None == [kind |-> "none", text |-> <<>>]
Str(parts) == [kind |-> "str", text |-> parts]

\* Python truthiness of a body:  not body  is  ~Truthy(body).
Truthy(b) == b.kind = "str" /\ b.text # <<>>

\* One numbered block of the digest; impl B writes no link line.
Block(im, i, news) ==
    [part |-> "item", no |-> i, ticker |-> news.ticker, time |-> news.time,
     title |-> news.title, link |-> IF im = "A" THEN news.link ELSE 0]

\* create_body(news_list, title_prefix)
create_body(im, list, title_prefix) ==
    IF list = <<>> THEN None
    ELSE Str(<< [part |-> "greeting"],
                [part |-> IF title_prefix = "keikoku" THEN "bad header" ELSE "good header"] >>
             \o [i \in 1..Len(list) |-> Block(im, i, list[i])]
             \o << [part |-> "footer"] >>)

Ev(kind, subj) == [kind |-> kind, subject |-> subj]

\* src/main.py 291-292:  if not body: return.  mail_handler.py has no such test.
EntryGuard(im, b) == im = "A" /\ ~Truthy(b)

\* send_and_clean_email, entry.
MailEntry ==
    /\ mpc = "start"
    /\ mpc' = IF EntryGuard(impl, body) THEN "returned" ELSE "build"
    /\ UNCHANGED <<mainVars, sheetVars, timeVars, fetchVars, judgeVars, impl,
                   subject, body, events>>

\* msg = MIMEText(body) and the three headers, outside the try: MIMEText(None)
\* raises AttributeError; a string body that cannot be encoded raises too.
MailBuild ==
    /\ mpc = "build"
    /\ IF body.kind = "none"
       THEN mpc' = "raised"
       ELSE \/ mpc' = "smtp"
            \/ /\ body.text # <<>>
               /\ mpc' = "raised"
    /\ UNCHANGED <<mainVars, sheetVars, timeVars, fetchVars, judgeVars, impl,
                   subject, body, events>>

\* The events of an SMTP session that ends as `outcome`.
SmtpEvents(outcome, subj) ==
    <<Ev("smtp_connect", subj)>>
    \o (IF outcome = "connect_failed" THEN <<>> ELSE <<Ev("smtp_login", subj)>>)
    \o (IF outcome \in {"connect_failed", "login_failed"} THEN <<>>
        ELSE <<Ev("send", subj)>>)
    \o (IF outcome \in {"quit_failed", "ok"} THEN <<Ev("sent", subj)>> ELSE <<>>)
    \o (IF outcome = "ok" THEN <<>> ELSE <<Ev("smtp_error", subj)>>)

\* A faulty variant of AfterSmtp: the cleanup runs whatever the session's outcome.
AfterSmtpAlwaysCleanup(outcome) == "cleanup"

\* Where the try block goes after the SMTP calls: on to cleanup_sent_mail, or
\* through the except branch to the end of the function.
AfterSmtp(outcome) == IF outcome = "ok" THEN "cleanup" ELSE "returned"

\* The try block up to server.quit(): SMTP_SSL, login, send_message, quit.
MailSmtp ==
    /\ mpc = "smtp"
    /\ \E outcome \in {"connect_failed", "login_failed", "send_failed",
                       "quit_failed", "ok"} :
         /\ events' = events \o SmtpEvents(outcome, subject)
         /\ mpc' = AfterSmtp(outcome)
    /\ UNCHANGED <<mainVars, sheetVars, timeVars, fetchVars, judgeVars, impl,
                   subject, body>>

\* Sent copies the mailbox search can match.
MaxMatches == 2

\* The events of a cleanup_sent_mail call that finds `matches` messages,
\* stores the Trash label on `stored` of them and then either finishes or
\* leaves through its except branch (IMAP4_SSL, login, both selects, search,
\* a store, close or logout raised).
CleanupEvents(stored, failed, subj) ==
    <<Ev("cleanup", subj)>>
    \o [k \in 1..stored |-> Ev("trashed", subj)]
    \o (IF failed THEN <<Ev("cleanup_error", subj)>> ELSE <<>>)

\* cleanup_sent_mail(subject): its own try/except catches every failure,
\* before, between and after the store calls.
MailCleanup ==
    /\ mpc = "cleanup"
    /\ \E matches \in 0..MaxMatches, stored \in 0..MaxMatches, failed \in BOOLEAN :
         /\ stored <= matches
         /\ stored < matches => failed
         /\ events' = events \o CleanupEvents(stored, failed, subject)
    /\ mpc' = "returned"
    /\ UNCHANGED <<mainVars, sheetVars, timeVars, fetchVars, judgeVars, impl,
                   subject, body>>

\* A subject: its tag (keikoku = warning, fukuin = good tidings) and count.
Subject(tag, n) == [tag |-> tag, count |-> n]

(***************************************************************************)
(* 6. Orchestrator: main (src/main.py 317-357 and src/src/main.py 7-47)    *)
(*    A run is of one orchestrator: variant = impl = "A" is src/main.py,   *)
(*    variant = impl = "B" is src/src/main.py, which calls ai_judge.py and *)
(*    mail_handler.py.  The loader and the collector src/src/main.py       *)
(*    imports (src.sheet_loader, src.news_fetcher) are described by their  *)
(*    contracts only.                                                      *)
(***************************************************************************)

\* Watchlists the loader of src/src/main.py returns: an ordered set of
\* normalized tickers; empty on any access error.
WatchlistsB == { <<>>, <<Ticker72>>, <<Ticker72, Ticker67>> }

\* get_stock_list of src.sheet_loader, by its contract.
LoadWatchlist ==
    /\ spc = "contract"
    /\ \E err \in BOOLEAN, list \in WatchlistsB :
         /\ err => list = <<>>
         /\ sheet_err' = err
         /\ stock_list' = list
    /\ spc' = "returned"
    /\ UNCHANGED <<mainVars, raw_column, timeVars, fetchVars, judgeVars, mailVars>>

\* Candidate lists the collector of src/src/main.py returns: in-window items
\* of the watchlist's tickers carrying a BAD or GOOD flag.
CandidatesB == {NewsListOf(n, G) : n \in 0..2, G \in SUBSET (1..2)}

\* fetch_stock_news of src.news_fetcher, by its contract: per-ticker failures
\* are skipped, the survivors are returned.
CollectNews ==
    /\ fpc = "contract"
    /\ \E list \in CandidatesB : candidates' = list
    /\ fpc' = "returned"
    /\ UNCHANGED <<mainVars, sheetVars, timeVars, tickers, ti, raw, judgeVars,
                   mailVars>>

\* tickers = get_stock_list(); the early return; the call of fetch_stock_news.
MainAfterSheet ==
    /\ pc = "sheet"
    /\ spc = "returned"
    /\ IF stock_list = <<>>
       THEN /\ pc' = "done"
            /\ UNCHANGED <<fpc, tickers>>
       ELSE /\ pc' = "fetch"
            /\ tickers' = stock_list
            /\ fpc' = IF variant = "A" THEN "start" ELSE "contract"
    /\ UNCHANGED <<bad_news, good_news, sheetVars, timeVars, ti, raw, candidates,
                   judgeVars, mailVars>>

\* candidates = fetch_stock_news(tickers); the early return; the call of
\* judge_news_with_gemini.
MainAfterFetch ==
    /\ pc = "fetch"
    /\ fpc = "returned"
    /\ IF candidates = <<>>
       THEN /\ pc' = "done"
            /\ UNCHANGED <<jpc, news_list>>
       ELSE /\ pc' = "judge"
            /\ news_list' = candidates
            /\ jpc' = "start"
    /\ UNCHANGED <<bad_news, good_news, sheetVars, timeVars, fetchVars, variant, ci,
                   confirmed_bad, confirmed_good, log, mailVars>>

\* bad_news, good_news = judge_news_with_gemini(candidates)
MainAfterJudge ==
    /\ pc = "judge"
    /\ jpc = "returned"
    /\ bad_news' = confirmed_bad
    /\ good_news' = confirmed_good
    /\ pc' = "bad_digest"
    /\ UNCHANGED <<sheetVars, timeVars, fetchVars, judgeVars, mailVars>>

\* Lines 342-347 (digest = "bad") and 350-355 (digest = "good"): the subject,
\* create_body and the call of send_and_clean_email, or the else branch.
MainDigest(digest, list, tag, next) ==
    /\ pc = digest
    /\ IF list # <<>>
       THEN /\ subject' = Subject(tag, Len(list))
            /\ body' = create_body(impl, list, tag)
            /\ mpc' = "start"
            /\ pc' = digest \o "_sending"
       ELSE /\ pc' = next
            /\ UNCHANGED <<subject, body, mpc>>
    /\ UNCHANGED <<bad_news, good_news, sheetVars, timeVars, fetchVars, judgeVars,
                   impl, events>>

\* send_and_clean_email returned to main.
MainAfterSend(digest, next) ==
    /\ pc = digest \o "_sending"
    /\ mpc = "returned"
    /\ pc' = next
    /\ UNCHANGED <<bad_news, good_news, sheetVars, timeVars, fetchVars, judgeVars,
                   mailVars>>

\* An exception left the stage main is waiting for: main has no try, the
\* exception ends the run.
MainRaised ==
    /\ \/ pc = "fetch" /\ fpc = "raised"
       \/ pc = "judge" /\ jpc = "raised"
       \/ pc \in {"bad_digest_sending", "good_digest_sending"} /\ mpc = "raised"
    /\ pc' = "crashed"
    /\ UNCHANGED <<bad_news, good_news, sheetVars, timeVars, fetchVars, judgeVars,
                   mailVars>>

(***************************************************************************)
(* Specifications                                                          *)
(***************************************************************************)

IdleMain  == pc = "none" /\ bad_news = <<>> /\ good_news = <<>>
IdleSheet == spc = "idle" /\ sheet_err = FALSE /\ raw_column = <<>> /\ stock_list = <<>>
IdleTime  == tpc = "idle" /\ now = DateTime(0, 0, 0, 0, 0) /\ window = NoWindow
IdleFetch == fpc = "idle" /\ tickers = <<>> /\ ti = 0 /\ raw = <<>> /\ candidates = <<>>
IdleJudge ==
    /\ jpc = "idle" /\ variant = "A" /\ news_list = <<>> /\ ci = 0
    /\ confirmed_bad = <<>> /\ confirmed_good = <<>> /\ log = <<>>
IdleMail ==
    /\ mpc = "idle" /\ impl = "A" /\ subject = Subject("", 0) /\ body = None
    /\ events = <<>>

\* A run of main() of src/main.py (variant "A") or of src/src/main.py ("B").
Init ==
    /\ pc = "sheet" /\ bad_news = <<>> /\ good_news = <<>>
    /\ variant \in {"A", "B"}
    /\ impl = variant
    /\ spc = (IF variant = "A" THEN "start" ELSE "contract")
    /\ sheet_err = FALSE /\ raw_column = <<>> /\ stock_list = <<>>
    /\ IdleTime /\ IdleFetch
    /\ jpc = "idle" /\ news_list = <<>> /\ ci = 0
    /\ confirmed_bad = <<>> /\ confirmed_good = <<>> /\ log = <<>>
    /\ mpc = "idle" /\ subject = Subject("", 0) /\ body = None /\ events = <<>>

Next ==
    \/ GetStockList(MainColumns)
    \/ LoadWatchlist
    \/ MainAfterSheet
    \/ FetchStart(MainNows)
    \/ FetchTicker(MainItemShapes, 1)
    \/ FetchReturn
    \/ CollectNews
    \/ MainAfterFetch
    \/ JudgeStart
    \/ JudgeBatch(MainResponses, MainResponsesB)
    \/ JudgeReturn
    \/ MainAfterJudge
    \/ MainDigest("bad_digest", bad_news, "keikoku", "good_digest")
    \/ MainAfterSend("bad_digest", "good_digest")
    \/ MainDigest("good_digest", good_news, "fukuin", "done")
    \/ MainAfterSend("good_digest", "done")
    \/ MailEntry
    \/ MailBuild
    \/ MailSmtp
    \/ MailCleanup
    \/ MainRaised

Spec == Init /\ [][Next]_vars

\* get_stock_list called on its own.
InitSheet ==
    /\ IdleMain /\ IdleTime /\ IdleFetch /\ IdleJudge /\ IdleMail
    /\ spc = "start" /\ sheet_err = FALSE /\ raw_column = <<>> /\ stock_list = <<>>

NextSheet == GetStockList(Columns)

SpecSheet == InitSheet /\ [][NextSheet]_vars

\* get_target_time_range called on its own.
InitTime ==
    /\ IdleMain /\ IdleSheet /\ IdleFetch /\ IdleJudge /\ IdleMail
    /\ tpc = "start" /\ now = DateTime(0, 0, 0, 0, 0) /\ window = NoWindow

NextTime == ResolveTimeRange

SpecTime == InitTime /\ [][NextTime]_vars

\* fetch_stock_news called on its own.
InitFetch ==
    /\ IdleMain /\ IdleSheet /\ IdleTime /\ IdleJudge /\ IdleMail
    /\ fpc = "start" /\ tickers \in FetchTickerLists
    /\ ti = 0 /\ raw = <<>> /\ candidates = <<>>

NextFetch ==
    \/ FetchStart(FetchNows)
    \/ FetchTicker(ItemShapes, MaxInfo)
    \/ FetchReturn

SpecFetch == InitFetch /\ [][NextFetch]_vars

\* judge_news_with_gemini, either variant, called on its own.
InitJudge ==
    /\ IdleMain /\ IdleSheet /\ IdleTime /\ IdleFetch /\ IdleMail
    /\ jpc = "start"
    /\ variant \in {"A", "B"}
    /\ news_list \in JudgeInputs(variant)
    /\ ci = 0 /\ confirmed_bad = <<>> /\ confirmed_good = <<>> /\ log = <<>>

NextJudge ==
    \/ JudgeStart
    \/ JudgeBatch(ResponsesA, ResponsesB)
    \/ JudgeReturn

SpecJudge == InitJudge /\ [][NextJudge]_vars

\* send_and_clean_email, either implementation, called on its own with the
\* body create_body gave, or with an empty string.
MailLists == {NewsListOf(n, {}) : n \in 0..2}
InitMail ==
    /\ IdleMain /\ IdleSheet /\ IdleTime /\ IdleFetch /\ IdleJudge
    /\ mpc = "start"
    /\ impl \in {"A", "B"}
    /\ \E tag \in {"keikoku", "fukuin"}, n \in 0..2 :
         /\ subject = Subject(tag, n)
         /\ body \in {create_body(impl, l, tag) : l \in MailLists} \cup {Str(<<>>)}
    /\ events = <<>>

NextMail ==
    \/ MailEntry
    \/ MailBuild
    \/ MailSmtp
    \/ MailCleanup

SpecMail == InitMail /\ [][NextMail]_vars

(***************************************************************************)
(* Properties                                                              *)
(***************************************************************************)

\* ---- helpers of the properties (stated without the operators above) ----

\* k occurs in title at some offset.
Occurs(k, title) ==
    \E off \in 0..(Len(title) - Len(k)) : \A p \in 1..Len(k) : title[off + p] = k[p]
OccursAny(keywords, title) == \E j \in DOMAIN keywords : Occurs(keywords[j], title)

\* a is a subsequence of b.
RECURSIVE IsSubseq(_, _)
IsSubseq(a, b) ==
    IF a = <<>> THEN TRUE
    ELSE IF b = <<>> THEN FALSE
    ELSE IF Head(a) = Head(b) THEN IsSubseq(Tail(a), Tail(b))
    ELSE IsSubseq(a, Tail(b))

\* t is cell without its leading and trailing whitespace.
IsTrimOf(t, cell) ==
    \E lo \in 1..(Len(cell) + 1), hi \in 0..Len(cell) :
        /\ t = SubSeq(cell, lo, hi)
        /\ \A p \in 1..(lo - 1) : cell[p] \in PyWhitespace
        /\ \A p \in (hi + 1)..Len(cell) : cell[p] \in PyWhitespace
        /\ t # <<>> => (t[1] \notin PyWhitespace /\ t[Len(t)] \notin PyWhitespace)

HasSuffix(t) == Len(t) >= 2 /\ t[Len(t) - 1] = 46 /\ t[Len(t)] = 84

\* t is the normalized ticker of cell: trimmed, ".T" appended only when absent.
IsTickerOf(t, cell) ==
    /\ HasSuffix(t)
    /\ \/ IsTrimOf(t, cell)
       \/ /\ IsTrimOf(SubSeq(t, 1, Len(t) - 2), cell)
          /\ ~HasSuffix(SubSeq(t, 1, Len(t) - 2))

\* The rows after the header that hold a non-blank cell.
FilledRows ==
    {r \in 2..Len(raw_column) :
        \E p \in 1..Len(raw_column[r]) : raw_column[r][p] \notin PyWhitespace}

\* The result lists the normalized tickers of the filled rows, in sheet order,
\* one entry per filled row; on an access error it is empty.
SheetListsFilledRows ==
    /\ sheet_err => stock_list = <<>>
    /\ Len(stock_list) = Cardinality(FilledRows)
    /\ \A r \in FilledRows :
         IsTickerOf(stock_list[Cardinality({q \in FilledRows : q <= r})], raw_column[r])

\* C9 as stated: get_stock_list returns the ordered SET of the normalized
\* tickers of the cells after the header: blank cells skipped, every ticker
\* trimmed and ending with the suffix, sheet order kept, and no ticker twice.
C9_OrderedSet ==
    spc = "returned" =>
        /\ SheetListsFilledRows
        /\ \A i, j \in 1..Len(stock_list) : stock_list[i] = stock_list[j] => i = j

\* C6: get_target_time_range returns, for hour(now) in [11,13], previous day
\* 17:00:00 and same day 12:04:59; for hour(now) in [16,18], same day 12:05:00
\* and same day 16:59:59; otherwise now - 6h and now; and start <= end.
C6_WindowOfHour ==
    tpc = "returned" =>
        /\ (11 <= now.hour /\ now.hour <= 13) =>
              /\ window.start_dt = DateTime(now.day - 1, 17, 0, 0, 0)
              /\ window.end_dt = DateTime(now.day, 12, 4, 59, 0)
        /\ (16 <= now.hour /\ now.hour <= 18) =>
              /\ window.start_dt = DateTime(now.day, 12, 5, 0, 0)
              /\ window.end_dt = DateTime(now.day, 16, 59, 59, 0)
        /\ (now.hour < 11 \/ (13 < now.hour /\ now.hour < 16) \/ 18 < now.hour) =>
              /\ window.end_dt = now
              /\ window.start_dt =
                   IF now.hour >= 6
                   THEN DateTime(now.day, now.hour - 6, now.minute, now.second,
                                 now.microsecond)
                   ELSE DateTime(now.day - 1, now.hour + 18, now.minute, now.second,
                                 now.microsecond)
        /\ DtLeq(window.start_dt, window.end_dt)

\* ---- fetch_stock_news ----

\* Seconds since the day-0 midnight of the fixed timezone.
LocalSeconds(dt) == dt.day * 86400 + dt.hour * 3600 + dt.minute * 60 + dt.second

\* The publish time of item (whole seconds) lies in the resolved window,
\* both ends included.
PublishedInWindow(item) ==
    /\ \/ LocalSeconds(window.start_dt) < item.providerPublishTime + JstOffset
       \/ /\ LocalSeconds(window.start_dt) = item.providerPublishTime + JstOffset
          /\ window.start_dt.microsecond = 0
    /\ item.providerPublishTime + JstOffset <= LocalSeconds(window.end_dt)

\* item is a news item as the provider interface describes it: it has a
\* publish time, a title and a link.
\* (its link may be None: the claim is about the publish time and the title).
WellFormed(item) == item.absent = {} /\ item.null \subseteq {"link"}

\* The link a candidate made of item carries.
RawLink(item) == IF "link" \in item.null THEN NoneLink ELSE item.link

Qualifies(item) ==
    /\ WellFormed(item)
    /\ PublishedInWindow(item)
    /\ ~OccursAny(IGNORE_KEYWORDS, item.title)
    /\ OccursAny(BAD_KEYWORDS, item.title) \/ OccursAny(GOOD_KEYWORDS, item.title)

\* The raw items retrieved so far, each with the ticker it was retrieved for.
RawItems ==
    UNION {{[ticker |-> raw[r].ticker, item |-> raw[r].info[k]] :
              k \in 1..Len(raw[r].info)} : r \in 1..Len(raw)}

\* C5: a raw item is a candidate if and only if its publish time lies in the
\* resolved window (ends included), its title holds no ignore-keyword and holds
\* a BAD or GOOD keyword; an ignore-keyword excludes it whatever else the title
\* holds; a candidate is BAD whenever its title holds a BAD keyword, GOOD
\* otherwise.
C5_CandidateIffQualifies ==
    /\ \A ri \in RawItems :
         (\E c \in 1..Len(candidates) :
             /\ candidates[c].link = RawLink(ri.item)
             /\ candidates[c].ticker = ri.ticker
             /\ candidates[c].title = ri.item.title)
         <=> Qualifies(ri.item)
    /\ \A c \in 1..Len(candidates) :
         /\ \E ri \in RawItems : RawLink(ri.item) = candidates[c].link
         /\ candidates[c].type =
              IF OccursAny(BAD_KEYWORDS, candidates[c].title) THEN "BAD" ELSE "GOOD"
         /\ \A d \in 1..Len(candidates) :
              (candidates[d].link = candidates[c].link
               /\ candidates[c].link # NoneLink) => d = c

\* ---- judge_news_with_gemini ----

\* The response of log entry e parsed as a JSON array (variant A).
ParsedAsArray(e) ==
    /\ e.resp.status = "ok"
    /\ e.resp.text.fence # "inner"
    /\ e.resp.text.payload.kind = "list"

\* The items a JSON array names by its elements that are integers in
\* 0..len(chunk)-1, in array order.
NamedByIntegers(chunk, elems) ==
    LET Valid(x) == x.kind = "int" /\ 0 <= x.val /\ x.val < Len(chunk)
        valid == SelectSeq(elems, Valid)
    IN  [k \in 1..Len(valid) |-> chunk[valid[k].val + 1]]

\* C1: variant A, a response that parses as a JSON array: the batch adds
\* exactly batch[i] for the elements i that are integers with
\* 0 <= i < len(batch), in array order; every other element adds nothing.
C1_OnlyIntegersInRange ==
    variant = "A" =>
        \A k \in 1..Len(log) :
            ParsedAsArray(log[k]) =>
                log[k].bad = NamedByIntegers(log[k].chunk, log[k].resp.text.payload.elems)

\* C2: each of the two returned lists is a subsequence of the input list.
C2_ResultsAreSubsequences ==
    jpc = "returned" =>
        /\ IsSubseq(confirmed_bad, news_list)
        /\ IsSubseq(confirmed_good, news_list)

\* The request of log entry e failed, or its response failed to parse.
RequestOrParseFailed(e) ==
    \/ e.resp.status = "error"
    \/ /\ variant = "A"
       /\ e.resp.status = "ok"
       /\ (e.resp.text.fence = "inner" \/ e.resp.text.payload.kind = "invalid")
    \/ /\ variant = "B"
       /\ e.resp.status = "ok"
       /\ \E l \in 1..Len(e.resp.lines) :
            /\ e.resp.lines[l].label # "IGNORE"
            /\ ~e.resp.lines[l].num

\* C3: a batch whose request failed or whose response failed to parse adds no
\* candidate to either output, is requested once, and the following batches
\* are still processed.
C3_FailedBatchAddsNothing ==
    /\ \A k \in 1..Len(log) :
         /\ RequestOrParseFailed(log[k]) => (log[k].bad = <<>> /\ log[k].good = <<>>)
         /\ log[k].offset = (k - 1) * ChunkSize(variant)
    /\ jpc = "returned" =>
         Len(log) * ChunkSize(variant) >= Len(Batched(variant, news_list))

\* The items the lines of a response name with the wanted label ("BAD" lines
\* for want = "BAD"; "GOOD" lines without "BAD" for want = "GOOD") and an
\* index in 0..len(chunk)-1, in line order.
NamedByLines(chunk, lines, want) ==
    LET Wanted(l) ==
            /\ IF want = "BAD" THEN l.label \in {"BAD", "BAD GOOD"} ELSE l.label = "GOOD"
            /\ 0 <= l.val /\ l.val < Len(chunk)
        named == SelectSeq(lines, Wanted)
    IN  [k \in 1..Len(named) |-> chunk[named[k].val + 1]]

\* C4: variant B, a response of lines No.<n>: <LABEL>: a line with "BAD" adds
\* batch[n] to confirmed-bad, a line with "GOOD" and not "BAD" adds batch[n] to
\* confirmed-good, any other line adds nothing, and a line whose n is outside
\* 0..len(batch)-1 (negative n included) adds nothing.
C4_LinesMapToItems ==
    variant = "B" =>
        \A k \in 1..Len(log) :
            (/\ log[k].resp.status = "ok"
             /\ \A l \in 1..Len(log[k].resp.lines) : log[k].resp.lines[l].num)
            => /\ log[k].bad = NamedByLines(log[k].chunk, log[k].resp.lines, "BAD")
               /\ log[k].good = NamedByLines(log[k].chunk, log[k].resp.lines, "GOOD")

\* ---- send_and_clean_email, main ----

\* C7: create_body returns no body for an empty list, and
\* send_and_clean_email called with an empty or null body opens no SMTP
\* session, sends nothing, cleans nothing up and raises nothing, in both
\* implementations.
C7_EmptyBodyIsNoOp ==
    /\ \A im \in {"A", "B"}, tag \in {"keikoku", "fukuin"} :
         create_body(im, <<>>, tag) = None
    /\ (body.kind = "none" \/ body.text = <<>>) =>
         /\ events = <<>>
         /\ mpc # "raised"

\* C8: no exception leaves a stage function and reaches main.
C8_NoExceptionReachesMain ==
    /\ fpc # "raised"
    /\ jpc # "raised"
    /\ mpc # "raised"
    /\ pc # "crashed"

\* The positions of the events of the digest with this tag and of this kind.
EventsOf(tag, kinds) ==
    {i \in 1..Len(events) : events[i].subject.tag = tag /\ events[i].kind \in kinds}

\* C10: in a run of main, at most one send is attempted per digest; the bad
\* digest's mail traffic precedes the good digest's; the cleanup of a subject
\* is attempted only after the send of that subject succeeded; after a failed
\* send or a failed cleanup of a subject nothing more is sent for it; and when
\* the bad digest's send or cleanup failed, main still goes on to the good
\* digest: once the run has ended with good news to report,
\* send_and_clean_email was called for the good digest, and its send was
\* attempted unless the run ended with an exception.
C10_MailEventsOrdered ==
    /\ \A tag \in {"keikoku", "fukuin"} :
         /\ Cardinality(EventsOf(tag, {"smtp_connect"})) <= 1
         /\ Cardinality(EventsOf(tag, {"send"})) <= 1
         /\ \A i \in EventsOf(tag, {"cleanup"}) :
              \E j \in EventsOf(tag, {"sent"}) :
                 j < i /\ events[j].subject = events[i].subject
         /\ \A i \in EventsOf(tag, {"smtp_error", "cleanup_error"}) :
              \A j \in EventsOf(tag, {"smtp_connect", "send"}) : j < i
    /\ \A i \in EventsOf("keikoku", {"smtp_connect", "send", "cleanup"}) :
         \A j \in EventsOf("fukuin", {"smtp_connect", "send", "cleanup"}) : i < j
    /\ (/\ pc \in {"done", "crashed"}
        /\ EventsOf("keikoku", {"smtp_error", "cleanup_error"}) # {}
        /\ good_news # <<>>)
       => /\ subject.tag = "fukuin"
          /\ pc = "done" => EventsOf("fukuin", {"smtp_connect"}) # {}

\* C10 witness: the run ended normally; the bad digest's send failed, the good
\* digest was sent after it and its cleanup failed.
C10_Witness ==
    /\ pc = "done"
    /\ EventsOf("keikoku", {"smtp_error"}) # {}
    /\ EventsOf("fukuin", {"sent"}) # {}
    /\ EventsOf("fukuin", {"cleanup_error"}) # {}

====
